---- MODULE Spec2Model ----
(***************************************************************************)
(* Voice turn-taking controller of the operator console (the Chat          *)
(* component, frontend/src/app/components/chat.tsx): the event frame       *)
(* decoder, the transcript accumulator, the speech playback queue and the  *)
(* capture arbiter, as one state machine.                                  *)
(*                                                                         *)
(* Text is a sequence of tokens (one-character strings, and one token per  *)
(* author name or tool rendering).  Every handler is one action; the       *)
(* render that follows a handler and the effects of that render (mic       *)
(* pause, auto-resume timer, silence timer) are part of the action.        *)
(* Functions created during a render close over that render's values of    *)
(* ttsEnabled, support, listening and session: such a closure is an "env"  *)
(* record carried by the stream, the playback worker or the timer that     *)
(* holds the function.                                                     *)
(***************************************************************************)
EXTENDS Integers, Sequences, FiniteSets, TLC

VARIABLES
    messages,          \* useState<Message[]>: the transcript
    loading,           \* useState: a reply is in flight
    micArmed,          \* useState: the user's mic preference
    ttsEnabled,        \* useState: speech playback switch
    speaking,          \* useState: audio is playing
    support,           \* useState<null|boolean>: "null", "yes", "no"
    session,           \* prop: 0 is null, otherwise the session's number
    transcript,        \* useSpeechRecognition().transcript
    listening,         \* useSpeechRecognition().listening
    streamingTextRef,
    hasStreamedRef,
    currentAuthorRef,
    lastProcessedTextRef,
    processedEventsRef,  \* a Set in insertion order
    lastLenRef,
    ttsQueueRef,
    ttsPlayingRef,
    streams,           \* the pumps that await reader.read()
    inflight,          \* the workers that await ttsFetch()
    workerTimers,      \* pending setTimeout(() => runTTSWorker(), 100)
    resumeTimer,       \* the auto-resume effect's setTimeout
    silenceTimer,      \* silenceTimer.current
    startsPending,     \* startSession() calls of the page not yet resolved
    run,               \* the bounds and the input sets of this run
    obs                \* observers: counters and logs the code does not read

vars == <<messages, loading, micArmed, ttsEnabled, speaking, support, session,
          transcript, listening, streamingTextRef, hasStreamedRef,
          currentAuthorRef, lastProcessedTextRef, processedEventsRef,
          lastLenRef, ttsQueueRef, ttsPlayingRef, streams, inflight,
          workerTimers, resumeTimer, silenceTimer, startsPending, run, obs>>

\* ---------------------------------------------------------------- bounds
\* Spec: the whole controller, with two kinds of frame
MaxSends == 1        \* user submissions accepted in one run
MaxFrames == 2       \* lines handed to the pump in one run
MaxSessions == 2     \* sessions started in one run
MaxWords == 2        \* tokens the recogniser appends to the live transcript
\* SpecAcc: decoder, accumulator and playback queue on a runtime without
\* capture support, with the full set of frames
AccMaxSends == 2
AccMaxFrames == 3
\* SpecLong: a reply that has already streamed as many frames as the
\* deduplication set holds
LongMaxFrames == 3   \* lines after the streamed ones
\* SpecCap: the same reply, followed by a second submission and a reset
CapMaxFrames == 2    \* lines after the streamed ones
\* SpecErr: a run in which every playback fails
ErrMaxSends == 2
ErrMaxFrames == 3
\* SpecTwo: a run with a second submission, speech and a session reset
TwoMaxSends == 2
TwoMaxFrames == 2
TwoMaxWords == 1
\* SpecChunk: the longest chunk one reader.read() yields, in tokens
MaxChunk == 5

\* ------------------------------------------------------- program constants
WorkerDelayMs == 100
ResumeDelayMs == 150
SilenceDelayMs == 1500
DedupCap == 100

Ticks(ms) == ms \div 50     \* one Tick of the model is 50 ms

NoSession == 0
NoAuthor == "undefined"
NoEnv == [ttsEnabled |-> FALSE, support |-> "null", listening |-> FALSE,
          session |-> NoSession]
NoResume == [on |-> FALSE, rem |-> 0, listening |-> FALSE]
NoSilence == [on |-> FALSE, rem |-> 0, transcript |-> <<>>, env |-> NoEnv]


\* ------------------------------------------------------------------ text
Range(q) == {q[i] : i \in 1..Len(q)}

Last(q) == q[Len(q)]

IsPrefix(p, q) == Len(p) <= Len(q) /\ SubSeq(q, 1, Len(p)) = p

RECURSIVE TrimStart(_)
TrimStart(t) ==
    IF t # <<>> /\ Head(t) = " " THEN TrimStart(Tail(t)) ELSE t

RECURSIVE TrimEnd(_)
TrimEnd(t) ==
    IF t # <<>> /\ Last(t) = " " THEN TrimEnd(SubSeq(t, 1, Len(t) - 1)) ELSE t

\* String.prototype.trim
Trim(t) == TrimEnd(TrimStart(t))

\* index of the first "]" of t, 0 when there is none
RECURSIVE FirstClose(_, _)
FirstClose(t, i) ==
    IF i > Len(t) THEN 0 ELSE IF t[i] = "]" THEN i ELSE FirstClose(t, i + 1)

\* text.replace(/\[.*?\]/g, "")
RECURSIVE StripTags(_)
StripTags(t) ==
    IF t = <<>> THEN <<>>
    ELSE IF Head(t) = "[" /\ FirstClose(t, 2) # 0
         THEN StripTags(SubSeq(t, FirstClose(t, 2) + 1, Len(t)))
         ELSE <<Head(t)>> \o StripTags(Tail(t))

CleanText(text) == Trim(StripTags(text))

\* String.prototype.toUpperCase on the author names of the model
ToUpperCase(a) ==
    CASE a = "pilot" -> "PILOT"
      [] a = "observer" -> "OBSERVER"
      [] a = "agent" -> "AGENT"
      [] OTHER -> a

VOICE_MAP(key) ==
    CASE key = "DIRECTOR" -> "Zephyr"
      [] key = "PILOT" -> "Puck"
      [] key = "OBSERVER" -> "Vega"
      [] OTHER -> ""

DEFAULT_VOICE == "Zephyr"

voiceForAuthor(author) ==
    IF author = NoAuthor THEN DEFAULT_VOICE
    ELSE IF VOICE_MAP(ToUpperCase(author)) # "" THEN VOICE_MAP(ToUpperCase(author))
    ELSE DEFAULT_VOICE

buildAgentMessage(text) == [role |-> "agent", content |-> text]

\* `[${author.toUpperCase()}] ${text}`
Tagged(author, text) == <<"[", ToUpperCase(author), "]", " ">> \o text

\* ---------------------------------------------------------------- frames
\* A part of content.parts: text ("" is <<>>), functionCall.name and
\* functionResponse.name ("" when the part has none).
TextPart(t) == [text |-> t, call |-> "", resp |-> ""]
CallPart(n) == [text |-> <<>>, call |-> n, resp |-> ""]
RespPart(n) == [text |-> <<>>, call |-> "", resp |-> n]

Frame(a, p, ps, i) ==
    [author |-> a, partial |-> p, parts |-> ps, timestamp |-> 0, id |-> i]

\* JSON.stringify({author, partial, content, timestamp, id})
EventKey(o) == <<o.author, o.partial, o.parts, o.timestamp, o.id>>

\* what one part pushes onto `parts`
PartTexts(p) ==
    (IF Trim(p.text) # <<>> THEN p.text ELSE <<>>)
    \o (IF p.call # "" THEN <<"CALLING TOOL:", p.call>> ELSE <<>>)
    \o (IF p.resp # "" THEN <<"TOOL RESPONSE:", p.resp>> ELSE <<>>)

RECURSIVE Joined(_)
Joined(ps) == IF ps = <<>> THEN <<>> ELSE PartTexts(Head(ps)) \o Joined(Tail(ps))

\* toolName: the name of the last functionCall part, "" for null
RECURSIVE ToolName(_)
ToolName(ps) ==
    IF ps = <<>> THEN ""
    ELSE IF Last(ps).call # "" THEN Last(ps).call
    ELSE ToolName(SubSeq(ps, 1, Len(ps) - 1))


\* ----------------------------------------------------------------- state
\* The state as one record, so that a handler is a function from state to
\* state and a handler's calls compose.
S == [messages |-> messages, loading |-> loading, micArmed |-> micArmed,
      ttsEnabled |-> ttsEnabled, speaking |-> speaking, support |-> support,
      session |-> session, transcript |-> transcript, listening |-> listening,
      streamingTextRef |-> streamingTextRef, hasStreamedRef |-> hasStreamedRef,
      currentAuthorRef |-> currentAuthorRef,
      lastProcessedTextRef |-> lastProcessedTextRef,
      processedEventsRef |-> processedEventsRef, lastLenRef |-> lastLenRef,
      ttsQueueRef |-> ttsQueueRef, ttsPlayingRef |-> ttsPlayingRef,
      streams |-> streams, inflight |-> inflight,
      workerTimers |-> workerTimers, resumeTimer |-> resumeTimer,
      silenceTimer |-> silenceTimer, startsPending |-> startsPending,
      run |-> run, obs |-> obs]

\* the record v becomes the next state
Commit(v) ==
    \E r \in {v} :
        /\ messages' = r.messages
        /\ loading' = r.loading
        /\ micArmed' = r.micArmed
        /\ ttsEnabled' = r.ttsEnabled
        /\ speaking' = r.speaking
        /\ support' = r.support
        /\ session' = r.session
        /\ transcript' = r.transcript
        /\ listening' = r.listening
        /\ streamingTextRef' = r.streamingTextRef
        /\ hasStreamedRef' = r.hasStreamedRef
        /\ currentAuthorRef' = r.currentAuthorRef
        /\ lastProcessedTextRef' = r.lastProcessedTextRef
        /\ processedEventsRef' = r.processedEventsRef
        /\ lastLenRef' = r.lastLenRef
        /\ ttsQueueRef' = r.ttsQueueRef
        /\ ttsPlayingRef' = r.ttsPlayingRef
        /\ streams' = r.streams
        /\ inflight' = r.inflight
        /\ workerTimers' = r.workerTimers
        /\ resumeTimer' = r.resumeTimer
        /\ silenceTimer' = r.silenceTimer
        /\ startsPending' = r.startsPending
        /\ run' = r.run
        /\ obs' = r.obs

\* the variables start as the record r
Start(r) ==
    /\ messages = r.messages
    /\ loading = r.loading
    /\ micArmed = r.micArmed
    /\ ttsEnabled = r.ttsEnabled
    /\ speaking = r.speaking
    /\ support = r.support
    /\ session = r.session
    /\ transcript = r.transcript
    /\ listening = r.listening
    /\ streamingTextRef = r.streamingTextRef
    /\ hasStreamedRef = r.hasStreamedRef
    /\ currentAuthorRef = r.currentAuthorRef
    /\ lastProcessedTextRef = r.lastProcessedTextRef
    /\ processedEventsRef = r.processedEventsRef
    /\ lastLenRef = r.lastLenRef
    /\ ttsQueueRef = r.ttsQueueRef
    /\ ttsPlayingRef = r.ttsPlayingRef
    /\ streams = r.streams
    /\ inflight = r.inflight
    /\ workerTimers = r.workerTimers
    /\ resumeTimer = r.resumeTimer
    /\ silenceTimer = r.silenceTimer
    /\ startsPending = r.startsPending
    /\ run = r.run
    /\ obs = r.obs

\* The values a function created by the render of state s closes over.
Env(s) == [ttsEnabled |-> s.ttsEnabled, support |-> s.support,
           listening |-> s.listening, session |-> s.session]

\* lastOp observes the operations the properties name, "-" stands for the rest
Marked == {"dup", "toggleMic", "autoSend", "silence", "rejected", "malformed",
           "playError", "error"}
Note(s, op) ==
    [s EXCEPT !.obs.lastOp = IF op \in Marked THEN op ELSE "-",
              !.obs.reseen = FALSE]

RemoveAt(q, i) == SubSeq(q, 1, i - 1) \o SubSeq(q, i + 1, Len(q))

\* SpeechRecognition.stopListening()
stopListening(s) == [s EXCEPT !.listening = FALSE]

\* SpeechRecognition.startListening({ continuous: true })
startListening(s) == [s EXCEPT !.listening = TRUE]

\* resetTranscript()
resetTranscript(s) == [s EXCEPT !.transcript = <<>>]

appendMessages(s, m) == [s EXCEPT !.messages = Append(@, m)]

updateLastAgentMessage(s, text) ==
    IF s.messages = <<>> THEN [s EXCEPT !.messages = <<buildAgentMessage(text)>>]
    ELSE IF Last(s.messages).role # "agent"
         THEN [s EXCEPT !.messages = Append(@, buildAgentMessage(text))]
         ELSE [s EXCEPT !.messages[Len(s.messages)].content = text]

\* ------------------------------------------------------- speech playback
\* browserTTS, up to speechSynthesis.speak: an utterance that is being
\* spoken is cancelled, then the new one is handed to the engine.  The
\* worker then awaits the utterance's end or error event.
ttsFetch(s, env, item) ==
    [s EXCEPT !.inflight =
                  Append([i \in 1..Len(@) |-> [@[i] EXCEPT !.cancelled = TRUE]],
                         [item |-> item, env |-> env, cancelled |-> FALSE]),
              !.obs.playStartMic = s.listening,
              !.obs.startLog = Append(@, item.n)]

runTTSWorker(s, env) ==
    IF s.ttsPlayingRef THEN s
    ELSE IF ~env.ttsEnabled THEN [s EXCEPT !.ttsQueueRef = <<>>]
    ELSE IF s.ttsQueueRef = <<>> THEN s
    ELSE LET next == Head(s.ttsQueueRef)
             s1 == [s EXCEPT !.ttsQueueRef = Tail(@),
                             !.ttsPlayingRef = TRUE,
                             !.speaking = TRUE]
             s2 == IF env.support = "yes" /\ env.listening
                   THEN stopListening(s1) ELSE s1
         IN  ttsFetch(s2, env, next)

IsToolText(text) ==
    "CALLING TOOL:" \in Range(text) \/ "TOOL RESPONSE:" \in Range(text)

\* enqueueTTS without the call of the worker
enqueueTTS_NoWorker(s, env, text, voice) ==
    IF ~env.ttsEnabled THEN s
    ELSE IF IsToolText(text) THEN s
    ELSE LET cleanText == CleanText(text) IN
         IF cleanText = <<>> THEN s
         ELSE IF s.lastProcessedTextRef = cleanText THEN s
         ELSE IF \E i \in 1..Len(s.ttsQueueRef) :
                    /\ s.ttsQueueRef[i].text = cleanText
                    /\ s.ttsQueueRef[i].voice = voice
              THEN s
         ELSE LET item == [text |-> cleanText, voice |-> voice,
                           n |-> s.obs.nEnq + 1]
              IN [s EXCEPT !.lastProcessedTextRef = cleanText,
                           !.ttsQueueRef = Append(@, item),
                           !.obs.nEnq = @ + 1,
                           !.obs.enqLog = Append(@, [text |-> cleanText,
                                                     voice |-> voice])]

\* enqueueTTS without the test for tool calls and responses
enqueueTTS_NoToolTest(s, env, text, voice) ==
    IF ~env.ttsEnabled THEN s
    ELSE LET cleanText == CleanText(text) IN
         IF cleanText = <<>> THEN s
         ELSE IF s.lastProcessedTextRef = cleanText THEN s
         ELSE IF \E i \in 1..Len(s.ttsQueueRef) :
                    /\ s.ttsQueueRef[i].text = cleanText
                    /\ s.ttsQueueRef[i].voice = voice
              THEN s
         ELSE LET item == [text |-> cleanText, voice |-> voice,
                           n |-> s.obs.nEnq + 1]
              IN runTTSWorker(
                     [s EXCEPT !.lastProcessedTextRef = cleanText,
                               !.ttsQueueRef = Append(@, item),
                               !.obs.nEnq = @ + 1,
                               !.obs.enqLog = Append(@, [text |-> cleanText,
                                                         voice |-> voice])],
                     env)

enqueueTTS(s, env, text, voice) ==
    IF ~env.ttsEnabled THEN s
    ELSE IF IsToolText(text) THEN s
    ELSE LET cleanText == CleanText(text) IN
         IF cleanText = <<>> THEN s
         ELSE IF s.lastProcessedTextRef = cleanText THEN s
         ELSE IF \E i \in 1..Len(s.ttsQueueRef) :
                    /\ s.ttsQueueRef[i].text = cleanText
                    /\ s.ttsQueueRef[i].voice = voice
              THEN s
         ELSE LET item == [text |-> cleanText, voice |-> voice,
                           n |-> s.obs.nEnq + 1]
              IN runTTSWorker(
                     [s EXCEPT !.lastProcessedTextRef = cleanText,
                               !.ttsQueueRef = Append(@, item),
                               !.obs.nEnq = @ + 1,
                               !.obs.enqLog = Append(@, [text |-> cleanText,
                                                         voice |-> voice])],
                     env)

\* the worker's catch that switches playback off and drops the pending items
WorkerFinally_Disables(s, env) ==
    [s EXCEPT !.ttsPlayingRef = FALSE, !.speaking = FALSE,
              !.ttsEnabled = FALSE, !.ttsQueueRef = <<>>]

\* the worker's finally block without the re-schedule
WorkerFinally_Stalls(s, env) ==
    [s EXCEPT !.ttsPlayingRef = FALSE, !.speaking = FALSE]

\* the worker's catch/finally, run when the awaited playback settles
WorkerFinally(s, env) ==
    LET s1 == [s EXCEPT !.ttsPlayingRef = FALSE, !.speaking = FALSE]
    IN  IF Len(s1.ttsQueueRef) > 0
        THEN [s1 EXCEPT !.workerTimers =
                            Append(@, [rem |-> Ticks(WorkerDelayMs), env |-> env])]
        ELSE s1


\* the eviction that deletes the second key instead of the first one
AddKey_EvictSecond(keys, k) ==
    LET added == Append(keys, k)
    IN  IF Len(added) > DedupCap
        THEN <<Head(added)>> \o Tail(Tail(added)) ELSE added

\* ------------------------------------------------- transcript accumulator
\* processedEventsRef.current.add(eventKey), then the eviction of the
\* oldest key once the set holds more than 100
AddKey(keys, k) ==
    LET added == Append(keys, k)
    IN  IF Len(added) > DedupCap THEN Tail(added) ELSE added

\* the partial branch with `=` where the source has `+=`
PartialEvent_Replace(s, env, author, joined) ==
    LET s2 == [s EXCEPT !.hasStreamedRef = TRUE,
                        !.currentAuthorRef = author,
                        !.streamingTextRef = joined]
    IN  updateLastAgentMessage(s2, Tagged(author, s2.streamingTextRef))

\* the partial branch of handleSSEEvent
PartialEvent(s, env, author, joined) ==
    LET isNewAgent == s.currentAuthorRef # NoAuthor /\ s.currentAuthorRef # author
        s1 == IF isNewAgent /\ s.hasStreamedRef /\ s.streamingTextRef # <<>>
              THEN [enqueueTTS(s, env, s.streamingTextRef,
                               voiceForAuthor(s.currentAuthorRef))
                       EXCEPT !.streamingTextRef = <<>>, !.hasStreamedRef = FALSE]
              ELSE s
        s2 == [s1 EXCEPT !.hasStreamedRef = TRUE,
                         !.currentAuthorRef = author,
                         !.streamingTextRef = @ \o joined]
    IN  updateLastAgentMessage(s2, Tagged(author, s2.streamingTextRef))

\* the non-partial branch of handleSSEEvent
FinalEvent(s, env, author, joined) ==
    IF s.hasStreamedRef /\ s.streamingTextRef # <<>>
    THEN enqueueTTS(s, env, s.streamingTextRef, voiceForAuthor(s.currentAuthorRef))
    ELSE LET s1 == appendMessages(s, buildAgentMessage(Tagged(author, joined)))
         IN  IF env.ttsEnabled
             THEN enqueueTTS(s1, env, joined, voiceForAuthor(author))
             ELSE s1

\* a notification that leaves the tool's name out
dispatchEvent_NoTool(s, author, toolName) ==
    [s EXCEPT !.obs.nNotifs = @ + 1,
              !.obs.lastNotif = [author |-> author, toolName |-> ""]]

\* window.dispatchEvent(new CustomEvent("agentActivity", ...))
dispatchEvent(s, author, toolName) ==
    [s EXCEPT !.obs.nNotifs = @ + 1,
              !.obs.lastNotif = [author |-> author, toolName |-> toolName]]

\* handleSSEEvent whose duplicate branch does not return
handleSSEEvent_NoSkip(s, env, o) ==
    LET eventKey == EventKey(o)
        s1 == IF eventKey \in Range(s.processedEventsRef) THEN s
              ELSE [s EXCEPT !.processedEventsRef = AddKey(@, eventKey)]
        joined == Joined(o.parts)
        author == IF o.author = NoAuthor THEN "agent" ELSE o.author
    IN  IF joined = <<>> THEN s1
        ELSE LET s2 == dispatchEvent(s1, author, ToolName(o.parts))
             IN  IF o.partial
                 THEN PartialEvent(s2, env, author, joined)
                 ELSE FinalEvent(s2, env, author, joined)

handleSSEEvent(s, env, o) ==
    LET eventKey == EventKey(o) IN
    IF eventKey \in Range(s.processedEventsRef) THEN s
    ELSE LET s1 == [s EXCEPT !.processedEventsRef = AddKey(@, eventKey)]
             joined == Joined(o.parts)
             author == IF o.author = NoAuthor THEN "agent" ELSE o.author
         IN  IF joined = <<>> THEN s1
             ELSE LET s2 == dispatchEvent(s1, author, ToolName(o.parts))
                  IN  IF o.partial
                      THEN PartialEvent(s2, env, author, joined)
                      ELSE FinalEvent(s2, env, author, joined)

\* handleSendMessage without the test of the session
handleSendMessage_NoSessionTest(s, env, message) ==
    LET text == Trim(message) IN
    IF text = <<>> THEN s
    ELSE LET s1 == appendMessages(s, [role |-> "user", content |-> text])
             s2 == [s1 EXCEPT !.streamingTextRef = <<>>,
                              !.hasStreamedRef = FALSE,
                              !.currentAuthorRef = NoAuthor,
                              !.lastProcessedTextRef = <<>>,
                              !.processedEventsRef = <<>>,
                              !.loading = TRUE]
             s3 == IF env.support = "yes" /\ env.listening
                   THEN stopListening(s2) ELSE s2
         IN  [s3 EXCEPT !.streams = Append(@, [env |-> env]),
                        !.obs.nSends = @ + 1]

\* handleSendMessage up to `await sendPrompt(session, text)`
handleSendMessage(s, env, message) ==
    IF env.session = NoSession THEN s
    ELSE LET text == Trim(message) IN
         IF text = <<>> THEN s
         ELSE LET s1 == appendMessages(s, [role |-> "user", content |-> text])
                  s2 == [s1 EXCEPT !.streamingTextRef = <<>>,
                                   !.hasStreamedRef = FALSE,
                                   !.currentAuthorRef = NoAuthor,
                                   !.lastProcessedTextRef = <<>>,
                                   !.processedEventsRef = <<>>,
                                   !.loading = TRUE]
                  s3 == IF env.support = "yes" /\ env.listening
                        THEN stopListening(s2) ELSE s2
              IN  [s3 EXCEPT !.streams = Append(@, [env |-> env]),
                             !.obs.nSends = @ + 1]

\* pump's end-of-stream branch without the finalization of the buffer
PumpDone_NoFinalize(s, env) ==
    [s EXCEPT !.loading = FALSE,
              !.streamingTextRef = <<>>,
              !.hasStreamedRef = FALSE,
              !.currentAuthorRef = NoAuthor]

\* pump, when reader.read() reports done
PumpDone(s, env) ==
    LET s1 == [s EXCEPT !.loading = FALSE]
        s2 == IF s1.hasStreamedRef /\ s1.streamingTextRef # <<>>
              THEN enqueueTTS(s1, env, s1.streamingTextRef,
                              voiceForAuthor(s1.currentAuthorRef))
              ELSE s1
    IN  [s2 EXCEPT !.streamingTextRef = <<>>,
                   !.hasStreamedRef = FALSE,
                   !.currentAuthorRef = NoAuthor]

ErrorText == <<"[", "ERROR", "]", " ", "Failed to reach the model.">>

\* the catch of handleSendMessage without setLoading(false)
SendFailed_StillLoading(s) ==
    appendMessages(s, buildAgentMessage(ErrorText))

\* the catch of handleSendMessage
SendFailed(s) ==
    appendMessages([s EXCEPT !.loading = FALSE], buildAgentMessage(ErrorText))

\* the reset effect without the stop of the capture device
ResetOnSessionChange_KeepsCapture(s) ==
    [s EXCEPT !.messages = <<>>,
              !.micArmed = FALSE,
              !.streamingTextRef = <<>>,
              !.hasStreamedRef = FALSE,
              !.currentAuthorRef = NoAuthor,
              !.lastProcessedTextRef = <<>>,
              !.processedEventsRef = <<>>,
              !.ttsQueueRef = <<>>,
              !.ttsPlayingRef = FALSE,
              !.speaking = FALSE]

\* the reset effect with a setLoading(false)
ResetOnSessionChange_ClearsLoading(s) ==
    LET s1 == [s EXCEPT !.messages = <<>>,
                        !.micArmed = FALSE,
                        !.loading = FALSE,
                        !.streamingTextRef = <<>>,
                        !.hasStreamedRef = FALSE,
                        !.currentAuthorRef = NoAuthor,
                        !.lastProcessedTextRef = <<>>,
                        !.processedEventsRef = <<>>,
                        !.ttsQueueRef = <<>>,
                        !.ttsPlayingRef = FALSE,
                        !.speaking = FALSE]
    IN  IF s1.support = "yes" THEN stopListening(resetTranscript(s1)) ELSE s1

\* the reset effect without setMicArmed(false)
ResetOnSessionChange_StaysArmed(s) ==
    LET s1 == [s EXCEPT !.messages = <<>>,
                        !.streamingTextRef = <<>>,
                        !.hasStreamedRef = FALSE,
                        !.currentAuthorRef = NoAuthor,
                        !.lastProcessedTextRef = <<>>,
                        !.processedEventsRef = <<>>,
                        !.ttsQueueRef = <<>>,
                        !.ttsPlayingRef = FALSE,
                        !.speaking = FALSE]
    IN  IF s1.support = "yes" THEN stopListening(resetTranscript(s1)) ELSE s1

\* the "Reset on session change" effect
ResetOnSessionChange(s) ==
    LET s1 == [s EXCEPT !.messages = <<>>,
                        !.micArmed = FALSE,
                        !.streamingTextRef = <<>>,
                        !.hasStreamedRef = FALSE,
                        !.currentAuthorRef = NoAuthor,
                        !.lastProcessedTextRef = <<>>,
                        !.processedEventsRef = <<>>,
                        !.ttsQueueRef = <<>>,
                        !.ttsPlayingRef = FALSE,
                        !.speaking = FALSE]
    IN  IF s1.support = "yes" THEN stopListening(resetTranscript(s1)) ELSE s1

\* toggleMic without the test of loading and speaking
toggleMic_Unguarded(s) ==
    IF s.support # "yes" THEN s
    ELSE IF s.micArmed
         THEN resetTranscript(stopListening([s EXCEPT !.micArmed = FALSE]))
         ELSE startListening(resetTranscript([s EXCEPT !.micArmed = TRUE]))

\* toggleMic without the test of support
toggleMic_NoSupportTest(s) ==
    IF s.loading \/ s.speaking THEN s
    ELSE IF s.micArmed
         THEN resetTranscript(stopListening([s EXCEPT !.micArmed = FALSE]))
         ELSE startListening(resetTranscript([s EXCEPT !.micArmed = TRUE]))

toggleMic(s) ==
    IF s.support # "yes" \/ s.loading \/ s.speaking THEN s
    ELSE IF s.micArmed
         THEN resetTranscript(stopListening([s EXCEPT !.micArmed = FALSE]))
         ELSE startListening(resetTranscript([s EXCEPT !.micArmed = TRUE]))


\* ---------------------------------------------------------------- effects
\* "Ensure mic paused while model is speaking or TTS is playing"
PauseEffect(s) ==
    IF s.support = "yes" /\ (s.loading \/ s.speaking) /\ s.listening
    THEN stopListening(s) ELSE s

ResumeDeps(s) == <<s.loading, s.speaking, s.micArmed, s.listening, s.support>>

\* the auto-resume effect without its cleanup
ResumeEffect_NoCleanup(old, s) ==
    IF ResumeDeps(old) = ResumeDeps(s) THEN s
    ELSE IF s.support = "yes" /\ ~s.loading /\ ~s.speaking /\ s.micArmed
              /\ ~s.listening
         THEN [s EXCEPT !.resumeTimer = [on |-> TRUE,
                                         rem |-> Ticks(ResumeDelayMs),
                                         listening |-> s.listening]]
         ELSE s

\* "Auto-resume mic after model + TTS finish (if armed)": the cleanup of the
\* previous run clears its timer, then the effect runs again.  A timer set
\* while listening is true has a callback that does nothing (it tests the
\* listening it closed over); the model keeps no such timer.
ResumeEffect(old, s) ==
    IF ResumeDeps(old) = ResumeDeps(s) THEN s
    ELSE IF s.support = "yes" /\ ~s.loading /\ ~s.speaking /\ s.micArmed
              /\ ~s.listening
         THEN [s EXCEPT !.resumeTimer = [on |-> TRUE,
                                         rem |-> Ticks(ResumeDelayMs),
                                         listening |-> s.listening]]
         ELSE [s EXCEPT !.resumeTimer = NoResume]

SilenceDeps(s) == <<s.transcript, s.listening, s.loading, s.speaking, s.support>>

\* the silence effect leaving a running timer's deadline as it is
SilenceEffect_NoRestart(old, s) ==
    IF SilenceDeps(old) = SilenceDeps(s) THEN s
    ELSE IF s.support # "yes" \/ ~s.listening \/ s.loading \/ s.speaking
         THEN [s EXCEPT !.silenceTimer = NoSilence]
         ELSE [s EXCEPT !.lastLenRef = Len(s.transcript),
                        !.silenceTimer =
                            [on |-> TRUE,
                             rem |-> IF s.silenceTimer.on THEN s.silenceTimer.rem
                                     ELSE Ticks(SilenceDelayMs),
                             transcript |-> s.transcript,
                             env |-> Env(s)]]

\* "Auto-send voice after 1.5s silence (only when actively listening)".  The
\* timer is set whatever the transcript holds; its callback tests the
\* transcript it closed over.
SilenceEffect(old, s) ==
    IF SilenceDeps(old) = SilenceDeps(s) THEN s
    ELSE IF s.support # "yes" \/ ~s.listening \/ s.loading \/ s.speaking
         THEN [s EXCEPT !.silenceTimer = NoSilence]
         ELSE [s EXCEPT !.lastLenRef = Len(s.transcript),
                        !.silenceTimer = [on |-> TRUE,
                                          rem |-> Ticks(SilenceDelayMs),
                                          transcript |-> s.transcript,
                                          env |-> Env(s)]]

\* The render after a handler and the effects of that render: old is the
\* state the previous render showed, s the state the handler left.
Settle(old, s) ==
    CHOOSE r \in {SilenceEffect(old, resumed) :
                     resumed \in {ResumeEffect(old, paused) :
                                     paused \in {PauseEffect(s)}}} : TRUE

\* armed, no reply loading, nothing speaking, capture off
Quiet(s) == s.micArmed /\ ~s.loading /\ ~s.speaking /\ ~s.listening

\* sinceChange: 50 ms units since the live transcript last changed or capture
\* last started, counted while the device listens.  sinceQuiet: 50 ms units
\* since the state became Quiet.
Watch(old, s) ==
    [s EXCEPT !.obs.sinceChange =
                  IF ~s.listening \/ ~old.listening \/ s.transcript # old.transcript
                  THEN 0 ELSE @,
              !.obs.sinceQuiet = IF Quiet(s) /\ Quiet(old) THEN @ ELSE 0]

\* a handler's result s, rendered: old is the state the handler started in
Rendered(old, s) ==
    CHOOSE r \in {Watch(old, settled) :
                     settled \in {Settle(old, v) : v \in {s}}} : TRUE

\* the auto-resume timer's callback
ResumeCallback(s, t) ==
    IF ~t.listening THEN startListening(resetTranscript(s)) ELSE s

\* the silence timer's callback that submits and leaves the capture buffer
\* and the capture as they are
SilenceCallback_KeepsBuffer(s, t) ==
    IF t.transcript # <<>> /\ Len(t.transcript) = s.lastLenRef
    THEN LET text == Trim(t.transcript)
         IN  IF text # <<>> THEN handleSendMessage(s, t.env, text) ELSE s
    ELSE s

\* the silence timer's callback that also disarms the microphone
SilenceCallback_Disarms(s, t) ==
    IF t.transcript # <<>> /\ Len(t.transcript) = s.lastLenRef
    THEN LET text == Trim(t.transcript)
             s1 == IF text # <<>> THEN handleSendMessage(s, t.env, text) ELSE s
         IN  [stopListening(resetTranscript(s1)) EXCEPT !.micArmed = FALSE]
    ELSE s

\* the silence timer's callback
SilenceCallback(s, t) ==
    IF t.transcript # <<>> /\ Len(t.transcript) = s.lastLenRef
    THEN LET text == Trim(t.transcript)
             s1 == IF text # <<>> THEN handleSendMessage(s, t.env, text) ELSE s
         IN  stopListening(resetTranscript(s1))
    ELSE s


\* -------------------------------------------------------------- observers
\* The accumulator's contract, followed on the side from the frames the
\* decoder accepts: a segment is a maximal run of partial frames of one
\* author (closed by an author switch, a final frame or end-of-stream), or
\* a final frame that arrives with no segment open.  segLog lists the closed
\* segments of the current reply cycle as the playback items they call for.
NoSeg == [open |-> FALSE, author |-> NoAuthor, text |-> <<>>]

SegItem(seg) == [text |-> CleanText(seg.text), voice |-> voiceForAuthor(seg.author)]

CloseSeg(ob) ==
    IF ob.segOpen.open
    THEN [ob EXCEPT !.segLog = Append(@, SegItem(ob.segOpen)), !.segOpen = NoSeg]
    ELSE ob

ObserveFrame(ob, o) ==
    LET joined == Joined(o.parts)
        author == IF o.author = NoAuthor THEN "agent" ELSE o.author
        ob1 == IF IsToolText(joined) THEN [ob EXCEPT !.cycleClean = FALSE] ELSE ob
    IN  IF joined = <<>> THEN ob
        ELSE IF o.partial
        THEN LET ob2 == IF ob1.segOpen.open /\ ob1.segOpen.author # author
                        THEN CloseSeg(ob1) ELSE ob1
             IN  [ob2 EXCEPT !.segOpen = [open |-> TRUE, author |-> author,
                                          text |-> ob2.segOpen.text \o joined]]
        ELSE IF ob1.segOpen.open THEN CloseSeg(ob1)
        ELSE [ob1 EXCEPT !.segLog =
                  Append(@, SegItem([author |-> author, text |-> joined]))]

NewCycle(ob, tts) ==
    [ob EXCEPT !.cycle = "open", !.cycleClean = tts, !.segOpen = NoSeg,
               !.segLog = <<>>, !.enqLog = <<>>, !.seenKeys = {}]

InitObs ==
    [nSends |-> 0, nFrames |-> 0, nSessions |-> 0, nEnq |-> 0, nNotifs |-> 0,
     lastNotif |-> [author |-> NoAuthor, toolName |-> ""],
     playStartMic |-> FALSE, startLog |-> <<>>, enqLog |-> <<>>,
     segOpen |-> NoSeg, segLog |-> <<>>, cycle |-> "none", cycleClean |-> TRUE,
     sinceChange |-> 0, sinceQuiet |-> 0, seenKeys |-> {}, reseen |-> FALSE,
     nBytes |-> 0, handed |-> <<>>, lastOp |-> "-"]

\* ------------------------------------------------------------ input sets
Authors == {"pilot", "observer"}
Texts == {<<"x">>, <<"y">>}
\* Spec: complete replies of one author
FinalFrames == {Frame("pilot", FALSE, <<TextPart(x)>>, 0) : x \in Texts}
\* SpecAcc: streamed and complete replies of two authors, and a tool call
TextFrames ==
    {Frame(a, p, <<TextPart(<<"x">>)>>, 0) : a \in Authors, p \in BOOLEAN}
    \cup {Frame("pilot", TRUE, <<TextPart(<<"y">>)>>, 0)}
ToolFrames == {Frame("pilot", FALSE, <<CallPart("f")>>, 0)}
AccFrames == TextFrames \cup ToolFrames
\* a line of a chunk: a payload JSON.parse accepts (ok) or one it rejects
Malformed == [ok |-> FALSE, o |-> Frame(NoAuthor, FALSE, <<>>, 0)]
LinesOf(frames) == {[ok |-> TRUE, o |-> f] : f \in frames}

RunSpec == [maxSends |-> MaxSends, fresh |-> 0, script |-> <<>>, maxFrames |-> MaxFrames,
            maxSessions |-> MaxSessions, maxWords |-> MaxWords,
            lines |-> LinesOf(FinalFrames)]
RunAcc == [maxSends |-> AccMaxSends, fresh |-> 0, script |-> <<>>, maxFrames |-> AccMaxFrames,
           maxSessions |-> 1, maxWords |-> 0,
           lines |-> LinesOf(AccFrames) \cup {Malformed}]
\* SpecLong: the streamed reply's frames carry the server's ids 1, 2, ...;
\* the first two carry text, the later ones carry no parts
LongFrame(i) ==
    Frame("pilot", TRUE, IF i <= 2 THEN <<TextPart(<<"x">>)>> ELSE <<>>, i)
\* redeliveries of the first two, the next new one, and another author's
LongFrames ==
    {LongFrame(i) : i \in {1, 2, DedupCap + 1}}
    \cup {Frame("observer", TRUE, <<TextPart(<<"y">>)>>, DedupCap + 2)}
RunLong == [maxSends |-> 1, fresh |-> DedupCap, script |-> <<>>,
            maxFrames |-> DedupCap + LongMaxFrames,
            maxSessions |-> 1, maxWords |-> 0,
            lines |-> LinesOf(LongFrames)]
\* SpecCap: the long reply of SpecLong, with a second submission and a
\* session reset, and playback that does not settle within the run
RunCap == [maxSends |-> 2, fresh |-> DedupCap, script |-> <<>>,
           maxFrames |-> DedupCap + CapMaxFrames,
           maxSessions |-> 2, maxWords |-> 0,
           lines |-> LinesOf(LongFrames)]

\* SpecErr: complete replies, on a runtime whose speech engine fails every
\* utterance
RunTwo == [maxSends |-> TwoMaxSends, fresh |-> 0, script |-> <<>>,
           maxFrames |-> TwoMaxFrames, maxSessions |-> 2, maxWords |-> TwoMaxWords,
           lines |-> LinesOf(FinalFrames)]
RunErr == [maxSends |-> ErrMaxSends, fresh |-> 0, script |-> <<>>,
           maxFrames |-> ErrMaxFrames, maxSessions |-> 1, maxWords |-> 0,
           lines |-> LinesOf(FinalFrames)]

\* SpecScen: one reply whose frames arrive as a script, each line once, in
\* order: partial(a, "Hel"), partial(a, "lo"), final(a, "")
HelloScript(a) ==
    << Frame(a, TRUE, <<TextPart(<<"H", "e", "l">>)>>, 0),
       Frame(a, TRUE, <<TextPart(<<"l", "o">>)>>, 0),
       Frame(a, FALSE, <<TextPart(<<>>)>>, 0) >>
\* a complete reply, then the call of tool f and its result
ToolScript(a) ==
    << Frame(a, FALSE, <<TextPart(<<"x">>)>>, 0),
       Frame(a, FALSE, <<CallPart("f")>>, 0),
       Frame(a, FALSE, <<RespPart("f")>>, 0) >>
\* a streamed reply with the call inside the stream, and a closing frame
\* that carries text and the tool's result
StreamedToolScript(a) ==
    << Frame(a, TRUE, <<TextPart(<<"x">>)>>, 0),
       Frame(a, TRUE, <<CallPart("f")>>, 0),
       Frame(a, FALSE, <<TextPart(<<"y">>), RespPart("f")>>, 0) >>
Scripts ==
    {HelloScript(a) : a \in Authors}
    \cup {ToolScript(a) : a \in Authors}
    \cup {StreamedToolScript(a) : a \in Authors}
RunScen(sc) == [maxSends |-> 1, fresh |-> 0, script |-> sc,
                maxFrames |-> Len(sc), maxSessions |-> 1, maxWords |-> 0,
                lines |-> {}]

Typed == {<<"w">>, <<" ", "w">>}
Words == {"w", " "}

\* ------------------------------------------------------------------ Init
\* The state after mount: the support check has reported b, the page's first
\* startSession() is pending.
MountedState(b, r) ==
    [messages |-> <<>>, loading |-> FALSE, micArmed |-> FALSE,
     ttsEnabled |-> TRUE, speaking |-> FALSE, support |-> b,
     session |-> NoSession, transcript |-> <<>>, listening |-> FALSE,
     streamingTextRef |-> <<>>, hasStreamedRef |-> FALSE,
     currentAuthorRef |-> NoAuthor, lastProcessedTextRef |-> <<>>,
     processedEventsRef |-> <<>>, lastLenRef |-> 0,
     ttsQueueRef |-> <<>>, ttsPlayingRef |-> FALSE,
     streams |-> <<>>, inflight |-> <<>>, workerTimers |-> <<>>,
     resumeTimer |-> NoResume, silenceTimer |-> NoSilence,
     startsPending |-> 1, run |-> r, obs |-> InitObs]

Init == Start(MountedState("yes", RunSpec))

\* the support check has not reported yet
InitAcc == Start(MountedState("null", RunAcc))

\* -------------------------------------------------------------- operations
\* Each operation as a function of the state it starts in: the handler, the
\* observers' notes, then the render and its effects.

\* the mount effect's support check on a runtime without speech recognition:
\* setSupport(false)
DoDetectSupport(s) == Rendered(s, Note([s EXCEPT !.support = "no"], "support"))

\* a malformed line escaping to the catch of handleSendMessage
pumpLine_Throws(s, env, line) ==
    IF line.ok THEN handleSSEEvent(s, env, line.o) ELSE SendFailed(s)

\* pump: the try/catch around JSON.parse and handleSSEEvent for one line
pumpLine(s, env, line) ==
    IF line.ok THEN handleSSEEvent(s, env, line.o) ELSE s

\* the RESET SESSION button of the page: setSession(null), startSession()
DoResetSessionClick(s) ==
    LET s1 == [s EXCEPT !.session = NoSession, !.startsPending = @ + 1,
                        !.obs.cycleClean = FALSE]
        s2 == IF s.session # NoSession THEN ResetOnSessionChange(s1) ELSE s1
    IN  Rendered(s, Note([s2 EXCEPT !.obs.seenKeys = {}], "reset"))

\* startSession().then(setSession)
DoSessionStarted(s) ==
    LET s1 == [s EXCEPT !.session = s.obs.nSessions + 1,
                        !.startsPending = @ - 1,
                        !.obs.nSessions = @ + 1,
                        !.obs.cycleClean = FALSE,
                        !.obs.seenKeys = {}]
    IN  Rendered(s, Note(ResetOnSessionChange(s1), "session"))

\* onClick={() => setTtsEnabled((v) => !v)}
DoToggleTTS(s) ==
    Rendered(s, Note([s EXCEPT !.ttsEnabled = ~@, !.obs.cycleClean = FALSE],
                     "ttsToggle"))

DoToggleMic(s) == Rendered(s, Note(toggleMic(s), "toggleMic"))

\* the form's onSubmit
DoSubmitTyped(s, text) ==
    LET s1 == handleSendMessage(s, Env(s), text)
        s2 == [s1 EXCEPT !.obs = NewCycle(@, s.ttsEnabled)]
    IN  Rendered(s, Note(s2, "send"))

\* the recogniser extends the live transcript
DoUserSpeaks(s, w) ==
    Rendered(s, Note([s EXCEPT !.transcript = Append(@, w)], "speech"))

\* pump: reader.read() yields a chunk of one line
DoPumpLine(s, i, line) ==
    LET env == s.streams[i].env
        dup == line.ok /\ EventKey(line.o) \in Range(s.processedEventsRef)
        seen == line.ok /\ EventKey(line.o) \in s.obs.seenKeys
        s1 == pumpLine(s, env, line)
        s2 == [s1 EXCEPT !.obs.nFrames = @ + 1]
        s3 == IF line.ok
              THEN [s2 EXCEPT !.obs.seenKeys = @ \cup {EventKey(line.o)}]
              ELSE s2
        s4 == IF line.ok /\ ~dup
              THEN [s3 EXCEPT !.obs = ObserveFrame(@, line.o)] ELSE s3
        op == IF ~line.ok THEN "malformed"
              ELSE IF dup THEN "dup"
              ELSE IF Joined(line.o.parts) = <<>> THEN "empty"
              ELSE IF line.o.partial THEN "partial" ELSE "final"
    IN  Rendered(s, [Note(s4, op) EXCEPT !.obs.reseen = seen])

\* pump: reader.read() reports done
DoStreamDone(s, i) ==
    LET s1 == PumpDone([s EXCEPT !.streams = RemoveAt(@, i)], s.streams[i].env)
        s2 == [s1 EXCEPT !.obs = [CloseSeg(@) EXCEPT !.cycle = "done"]]
    IN  Rendered(s, Note(s2, "done"))

\* sendPrompt or reader.read() rejects
DoStreamError(s, i) ==
    LET s1 == SendFailed([s EXCEPT !.streams = RemoveAt(@, i)])
        s2 == [s1 EXCEPT !.obs.cycle = "failed"]
    IN  Rendered(s, Note(s2, "error"))

\* the end event (ended) or the error event of an in-flight utterance
DoPlaybackSettled(s, i, ended) ==
    LET s1 == WorkerFinally([s EXCEPT !.inflight = RemoveAt(@, i)],
                            s.inflight[i].env)
    IN  Rendered(s, Note(s1, IF ended THEN "ended" ELSE "playError"))

\* setTimeout(() => runTTSWorker(), 100) fires
DoWorkerTimerFire(s, i) ==
    LET s1 == runTTSWorker([s EXCEPT !.workerTimers = RemoveAt(@, i)],
                           s.workerTimers[i].env)
    IN  Rendered(s, Note(s1, "workerTimer"))

DoResumeFire(s) ==
    LET s1 == ResumeCallback([s EXCEPT !.resumeTimer = NoResume], s.resumeTimer)
    IN  Rendered(s, Note(s1, "resume"))

DoSilenceFire(s) ==
    LET s0 == [s EXCEPT !.silenceTimer = NoSilence]
        s1 == SilenceCallback(s0, s.silenceTimer)
        sent == s1.obs.nSends # s.obs.nSends
        s2 == IF sent
              THEN [s1 EXCEPT !.obs = NewCycle(@, s.silenceTimer.env.ttsEnabled)]
              ELSE s1
        called == /\ s.silenceTimer.transcript # <<>>
                  /\ Len(s.silenceTimer.transcript) = s0.lastLenRef
                  /\ Trim(s.silenceTimer.transcript) # <<>>
    IN  Rendered(s, Note(s2, IF sent THEN "autoSend"
                             ELSE IF called THEN "rejected" ELSE "silence"))

\* 50 ms pass
DoTick(s) ==
    [s EXCEPT
        !.resumeTimer = IF @.on THEN [@ EXCEPT !.rem = @ - 1] ELSE @,
        !.silenceTimer = IF @.on THEN [@ EXCEPT !.rem = @ - 1] ELSE @,
        !.workerTimers = [i \in 1..Len(@) |-> [@[i] EXCEPT !.rem = @ - 1]],
        !.obs.lastOp = "-",
        !.obs.reseen = FALSE,
        !.obs.sinceChange = IF s.listening /\ @ < Ticks(SilenceDelayMs)
                            THEN @ + 1 ELSE @,
        !.obs.sinceQuiet = IF Quiet(s) /\ @ < Ticks(ResumeDelayMs)
                           THEN @ + 1 ELSE @]

DetectSupport ==
    /\ support = "null"
    /\ Commit(DoDetectSupport(S))

\* --------------------------------------------------------------- actions
ResetSessionClick ==
    /\ obs.nSessions + startsPending < run.maxSessions
    /\ Commit(DoResetSessionClick(S))

SessionStarted ==
    /\ startsPending > 0
    /\ Commit(DoSessionStarted(S))

ToggleTTS ==
    /\ ttsEnabled \in BOOLEAN
    /\ Commit(DoToggleTTS(S))

ToggleMic ==
    /\ micArmed \in BOOLEAN
    /\ Commit(DoToggleMic(S))

\* the input and the submit button are disabled while loading; canSend is
\* true when a session exists and the typed text is not blank
SubmitTyped ==
    /\ obs.nSends < run.maxSends
    /\ session # NoSession
    /\ ~loading
    /\ \E text \in Typed :
        /\ Trim(text) # <<>>
        /\ Commit(DoSubmitTyped(S, text))

UserSpeaks ==
    /\ listening
    /\ obs.nSends < run.maxSends
    /\ Len(transcript) < run.maxWords
    /\ \E w \in Words : Commit(DoUserSpeaks(S, w))

PumpLine ==
    \E i \in 1..Len(streams), line \in run.lines :
        /\ obs.nFrames >= run.fresh
        /\ obs.nFrames < run.maxFrames
        /\ Commit(DoPumpLine(S, i, line))

StreamDone ==
    \E i \in 1..Len(streams) : Commit(DoStreamDone(S, i))

StreamError ==
    \E i \in 1..Len(streams) : Commit(DoStreamError(S, i))

\* a cancelled utterance reports an error
PlaybackSettled ==
    \E i \in 1..Len(inflight), ended \in BOOLEAN :
        /\ inflight[i].cancelled => ~ended
        /\ Commit(DoPlaybackSettled(S, i, ended))

WorkerTimerFire ==
    \E i \in 1..Len(workerTimers) :
        /\ workerTimers[i].rem = 0
        /\ Commit(DoWorkerTimerFire(S, i))

ResumeFire ==
    /\ resumeTimer.on
    /\ resumeTimer.rem = 0
    /\ Commit(DoResumeFire(S))

SilenceFire ==
    /\ silenceTimer.on
    /\ silenceTimer.rem = 0
    /\ Commit(DoSilenceFire(S))

TimerPending ==
    resumeTimer.on \/ silenceTimer.on \/ workerTimers # <<>>

TimerDue ==
    \/ resumeTimer.on /\ resumeTimer.rem = 0
    \/ silenceTimer.on /\ silenceTimer.rem = 0
    \/ \E i \in 1..Len(workerTimers) : workerTimers[i].rem = 0

\* a timer that is due fires before more time passes
Tick ==
    /\ TimerPending
    /\ ~TimerDue
    /\ Commit(DoTick(S))

Next ==
    \/ ResetSessionClick
    \/ SessionStarted
    \/ ToggleTTS
    \/ ToggleMic
    \/ SubmitTyped
    \/ UserSpeaks
    \/ PumpLine
    \/ StreamDone
    \/ StreamError
    \/ PlaybackSettled
    \/ WorkerTimerFire
    \/ ResumeFire
    \/ SilenceFire
    \/ Tick

Spec == Init /\ [][Next]_vars

NextAcc ==
    \/ DetectSupport
    \/ SessionStarted
    \/ ToggleTTS
    \/ ToggleMic
    \/ SubmitTyped
    \/ PumpLine
    \/ StreamDone
    \/ StreamError
    \/ PlaybackSettled
    \/ WorkerTimerFire
    \/ Tick

SpecAcc == InitAcc /\ [][NextAcc]_vars

\* a session is open and one typed submission is streaming its reply
InitLong ==
    Start(DoSubmitTyped(DoSessionStarted(MountedState("no", RunLong)), <<"w">>))

\* pump: the first DedupCap lines of the run are the reply's frames in the
\* order of their ids, each delivered once
PumpFresh ==
    \E i \in 1..Len(streams) :
        /\ obs.nFrames < run.fresh
        /\ Commit(DoPumpLine(S, i, [ok |-> TRUE, o |-> LongFrame(obs.nFrames + 1)]))

InitScen == \E sc \in Scripts : Start(MountedState("no", RunScen(sc)))

\* pump: the next line of the script
PumpScript ==
    \E i \in 1..Len(streams) :
        /\ obs.nFrames < Len(run.script)
        /\ Commit(DoPumpLine(S, i, [ok |-> TRUE, o |-> run.script[obs.nFrames + 1]]))

NextScen ==
    \/ SessionStarted
    \/ ToggleTTS
    \/ ToggleMic
    \/ SubmitTyped
    \/ PumpScript
    \/ StreamDone
    \/ StreamError
    \/ PlaybackSettled

SpecScen == InitScen /\ [][NextScen]_vars

InitCap == Start(MountedState("no", RunCap))

NextCap ==
    \/ ResetSessionClick
    \/ SessionStarted
    \/ SubmitTyped
    \/ PumpFresh
    \/ PumpLine
    \/ StreamDone
    \/ StreamError

SpecCap == InitCap /\ [][NextCap]_vars

InitErr == Start(MountedState("no", RunErr))

\* utterance.onerror: the awaited playback rejects
PlaybackFails ==
    \E i \in 1..Len(inflight) : Commit(DoPlaybackSettled(S, i, FALSE))

NextErr ==
    \/ SessionStarted
    \/ SubmitTyped
    \/ PumpLine
    \/ StreamDone
    \/ PlaybackFails
    \/ WorkerTimerFire
    \/ Tick

SpecErr == InitErr /\ [][NextErr]_vars

NextLong ==
    \/ PumpFresh
    \/ ToggleTTS
    \/ ToggleMic
    \/ PumpLine
    \/ StreamDone
    \/ StreamError
    \/ PlaybackSettled
    \/ WorkerTimerFire
    \/ Tick

SpecLong == InitLong /\ [][NextLong]_vars

\* ------------------------------------------------- the stream as text
\* The text of a stream is a sequence of tokens: the "data: " prefix, the
\* JSON text of a frame in two pieces (a cut inside the text leaves a head
\* and a tail), and the newline.
NoFrame == Frame(NoAuthor, FALSE, <<>>, 0)
PrefixTok == [k |-> "data", o |-> NoFrame]
NewlineTok == [k |-> "nl", o |-> NoFrame]
HeadTok(f) == [k |-> "head", o |-> f]
TailTok(f) == [k |-> "tail", o |-> f]

\* the server's text of one frame: data: {...}\n
Encode(f) == <<PrefixTok, HeadTok(f), TailTok(f), NewlineTok>>

RECURSIVE Wire(_)
Wire(frames) ==
    IF frames = <<>> THEN <<>> ELSE Encode(Head(frames)) \o Wire(Tail(frames))

\* raw.split("\n")
RECURSIVE SplitLines(_)
SplitLines(raw) ==
    LET nls == {i \in 1..Len(raw) : raw[i] = NewlineTok}
    IN  IF nls = {} THEN <<raw>>
        ELSE LET i == CHOOSE j \in nls : \A m \in nls : j <= m
             IN  <<SubSeq(raw, 1, i - 1)>> \o SplitLines(SubSeq(raw, i + 1, Len(raw)))

\* line.replace(/^data:\s*/g, "").trim()
CleanLine(line) ==
    IF line # <<>> /\ line[1] = PrefixTok THEN Tail(line) ELSE line

\* JSON.parse: the whole text of one object parses, a piece of it throws
ParseLine(cleanLine) ==
    IF /\ Len(cleanLine) = 2
       /\ cleanLine[1].k = "head"
       /\ cleanLine[2] = TailTok(cleanLine[1].o)
    THEN [ok |-> TRUE, o |-> cleanLine[1].o]
    ELSE Malformed

\* pump: the lines of one chunk, in order
RECURSIVE pumpLines(_, _, _)
pumpLines(s, env, lines) ==
    IF lines = <<>> THEN s
    ELSE LET cleanLine == CleanLine(Head(lines))
             line == ParseLine(cleanLine)
             s1 == IF cleanLine = <<>> THEN s ELSE pumpLine(s, env, line)
             s2 == IF cleanLine # <<>> /\ line.ok
                   THEN [s1 EXCEPT !.obs.handed = Append(@, line.o)] ELSE s1
         IN  pumpLines(s2, env, Tail(lines))

\* pump: reader.read() yields a chunk, decoded and split by itself
pumpChunk(s, env, raw) ==
    pumpLines(s, env, SelectSeq(SplitLines(raw), LAMBDA l : l # <<>>))

DoPumpChunk(s, i, raw) ==
    LET s1 == pumpChunk(s, s.streams[i].env, raw)
        s2 == [s1 EXCEPT !.obs.nBytes = @ + Len(raw)]
    IN  Rendered(s, Note(s2, "chunk"))

\* SpecChunk: the reply of HelloScript arrives as text that the transport
\* cuts into chunks wherever it likes
InitChunk ==
    \E a \in Authors : Start(MountedState("no", RunScen(HelloScript(a))))

PumpChunk ==
    \E i \in 1..Len(streams), n \in 1..MaxChunk :
        /\ obs.nBytes + n <= Len(Wire(run.script))
        /\ Commit(DoPumpChunk(S, i, SubSeq(Wire(run.script), obs.nBytes + 1,
                                           obs.nBytes + n)))

NextChunk ==
    \/ SessionStarted
    \/ SubmitTyped
    \/ PumpChunk
    \/ StreamDone

SpecChunk == InitChunk /\ [][NextChunk]_vars

\* SpecEcho: a streamed reply in which the model says the same fragment
\* twice in a row; the frames carry no id and no timestamp
EchoScript(a) ==
    << Frame(a, TRUE, <<TextPart(<<"h", "a">>)>>, 0),
       Frame(a, TRUE, <<TextPart(<<"h", "a">>)>>, 0),
       Frame(a, TRUE, <<TextPart(<<"!">>)>>, 0),
       Frame(a, FALSE, <<TextPart(<<>>)>>, 0) >>

InitEcho ==
    \E sc \in {HelloScript(a) : a \in Authors} \cup {EchoScript(a) : a \in Authors} :
        Start(MountedState("no", RunScen(sc)))

SpecEcho == InitEcho /\ [][NextScen]_vars

\* SpecTwo: the program of Spec on a run that accepts two submissions
InitTwo == Start(MountedState("yes", RunTwo))

SpecTwo == InitTwo /\ [][Next]_vars

\* The event loop runs a timer's callback once the timer is due, and time
\* passes.
SpecLive ==
    /\ Init
    /\ [][Next]_vars
    /\ WF_vars(Tick)
    /\ WF_vars(WorkerTimerFire)
    /\ WF_vars(ResumeFire)
    /\ WF_vars(SilenceFire)

\* SpecLive on a runtime whose speech engine reports the end or the error of
\* every utterance
SpecPlay ==
    /\ SpecLive
    /\ WF_vars(PlaybackSettled)

\* ================================================================ claims

\* C1  Capture mutual exclusion.  The capture device is not listening while
\* a playback item is in flight or a reply is streaming, and capture is
\* already stopped at the moment runTTSWorker hands an item to playback
\* (playStartMic records the device's listening flag at that moment).
C1_CaptureMutualExclusion ==
    /\ listening => (inflight = <<>> /\ streams = <<>>)
    /\ ~obs.playStartMic

\* C2  Playback serialization.  At most one playback item is in flight at
\* any time.
C2_PlaybackSerialized == Len(inflight) <= 1

\* C4  FIFO playback.  Items start playing in the order in which they were
\* appended to the pending list (startLog lists the append numbers of the
\* items in the order they started), and a playing item is never interrupted
\* by a later one (no in-flight utterance is cancelled).
C4_FifoStartOrder ==
    \A i, j \in 1..Len(obs.startLog) : i < j => obs.startLog[i] < obs.startLog[j]

\* C4  FIFO playback, both halves: start order is append order, and no
\* in-flight utterance is cancelled by a later item.
C4_FifoNoInterruption ==
    /\ C4_FifoStartOrder
    /\ \A i \in 1..Len(inflight) : ~inflight[i].cancelled

\* C7  Disable flush.  When speech playback is disabled, the pending list is
\* emptied at once, so none of the pending items is played afterwards.
C7_DisableFlushes ==
    [][(ttsEnabled /\ ~ttsEnabled') => ttsQueueRef' = <<>>]_vars


C5_Untouched ==
    /\ UNCHANGED <<messages, streamingTextRef, currentAuthorRef, ttsQueueRef>>
    /\ obs'.nNotifs = obs.nNotifs

\* C5 as stated: a frame whose key was already seen in the reply cycle leaves
\* the transcript, the streaming buffer, the current author, the playback
\* queue and the notifications unchanged.
C5_SeenDiscarded == [][obs'.reseen => C5_Untouched]_vars

\* C5, amended: a frame whose key is still held in the bounded deduplication
\* set is discarded and leaves the transcript, the streaming buffer, the
\* current author, the playback queue and the notifications unchanged.
C5_HeldDiscarded == [][obs'.lastOp = "dup" => C5_Untouched]_vars

\* a redelivered frame was discarded after the set had reached its capacity
C5_Witness ==
    /\ obs.lastOp = "dup"
    /\ Len(processedEventsRef) = DedupCap
    /\ obs.nFrames > DedupCap

\* C3  Exactly-once playback.  When a reply cycle that ran with playback
\* enabled and carried no tool frame has reached end-of-stream, the items
\* enqueued during the cycle are exactly the cycle's author segments, one
\* item per segment, in order, each with the segment's accumulated text and
\* its author's voice.
C3_ExactlyOncePerSegment ==
    (obs.cycle = "done" /\ obs.cycleClean) => obs.enqLog = obs.segLog

\* C8  Transcript monotonicity.  While one author's streaming entry stays
\* open within one reply, every step that changes the streaming buffer
\* rewrites the same transcript entry, and the entry's previous text is a
\* proper prefix of its new text.
C8_EntryGrows ==
    [][(/\ hasStreamedRef /\ hasStreamedRef'
        /\ currentAuthorRef' = currentAuthorRef
        /\ obs'.nSends = obs.nSends
        /\ streamingTextRef' # streamingTextRef)
       => /\ messages # <<>>
          /\ Len(messages') = Len(messages)
          /\ Last(messages').role = "agent"
          /\ IsPrefix(Last(messages).content, Last(messages').content)
          /\ Last(messages').content # Last(messages).content
          /\ Last(messages').content = Tagged(currentAuthorRef, streamingTextRef')]_vars

\* an entry that two partial frames of one author have written
C8_Witness ==
    /\ hasStreamedRef
    /\ currentAuthorRef = "pilot"
    /\ streamingTextRef = <<"x", "y">>
    /\ Last(messages).content = Tagged("pilot", <<"x", "y">>)

C9_Cleared == transcript' = <<>>

\* C9 as stated: toggleMic arms a disarmed arbiter (capture started,
\* transcript cleared) and disarms an armed one in any state (capture
\* stopped, transcript discarded).
C9_ToggleTotal ==
    [][obs'.lastOp = "toggleMic"
       => IF micArmed THEN ~micArmed' /\ ~listening' /\ C9_Cleared
          ELSE micArmed' /\ listening' /\ C9_Cleared]_vars

\* C9, amended: while no reply is loading and nothing is speaking, toggleMic
\* arms a disarmed arbiter (capture started, transcript cleared) and disarms
\* an armed one (capture stopped, transcript discarded); while a reply is
\* loading or audio is speaking it changes nothing.
C9_ToggleWhenIdle ==
    [][obs'.lastOp = "toggleMic"
       => IF loading \/ speaking
          THEN UNCHANGED <<micArmed, listening, transcript, loading, speaking>>
          ELSE IF micArmed THEN ~micArmed' /\ ~listening' /\ C9_Cleared
          ELSE micArmed' /\ listening' /\ C9_Cleared]_vars

\* toggleMic was called in Armed-Suspended and the arbiter is still armed
C9_Witness == obs.lastOp = "toggleMic" /\ micArmed /\ loading /\ ~listening

\* listening, no reply loading, nothing speaking
C6_Idle == listening /\ ~loading /\ ~speaking

\* the silence timer's callback ran in this step
C6_Fired == silenceTimer.on /\ obs'.lastOp \in {"autoSend", "silence", "rejected"}

\* C6 as stated: when the debounce window elapses the captured text is
\* submitted.
C6_WindowSubmits == [][C6_Fired => obs'.lastOp = "autoSend"]_vars

\* C6, amended: while listening and idle with a non-empty captured text, the
\* debounce timer is pending and is due exactly 1500 ms after the text last
\* changed (a change restarts the window); an auto-submission happens only
\* when that window has elapsed; and when it elapses the text is submitted
\* provided a session is open and the text is not blank.
C6_Debounce ==
    [][/\ (C6_Idle' /\ transcript' # <<>>)
          => /\ silenceTimer'.on
             /\ silenceTimer'.transcript = transcript'
             /\ silenceTimer'.rem = Ticks(SilenceDelayMs) - obs'.sinceChange
       /\ obs'.lastOp = "autoSend"
          => C6_Idle /\ obs.sinceChange = Ticks(SilenceDelayMs)
       /\ (C6_Fired /\ session # NoSession /\ Trim(transcript) # <<>>)
          => obs'.lastOp = "autoSend"
       /\ (transcript' # transcript /\ C6_Idle') => obs'.sinceChange = 0]_vars

\* an auto-submission of a text that changed twice
C6_Witness ==
    /\ obs.lastOp = "autoSend"
    /\ loading
    /\ Last(messages) = [role |-> "user", content |-> <<"w", "w">>]

\* capture started by something other than toggleMic
C10_AutoStart == ~listening /\ listening' /\ obs'.lastOp # "toggleMic"

C10_Quiet == micArmed /\ ~loading /\ ~speaking /\ ~listening

\* C10  Auto-resume.  While armed with no reply loading, nothing speaking
\* and capture off, the grace timer is pending and due 150 ms after that
\* condition began; a reply or a playback that begins ends the condition;
\* capture is started, other than by toggleMic, only when the condition has
\* lasted the whole 150 ms; and the condition always ends: capture is
\* restarted, or the system becomes active or is disarmed first.
C10_AutoResume ==
    /\ [][/\ C10_Quiet'
             => /\ resumeTimer'.on
                /\ resumeTimer'.rem = Ticks(ResumeDelayMs) - obs'.sinceQuiet
          /\ resumeTimer'.on => C10_Quiet'
          /\ (Len(streams') > Len(streams) \/ Len(inflight') > Len(inflight))
             => ~C10_Quiet'
          /\ C10_AutoStart
             => /\ C10_Quiet
                /\ obs.sinceQuiet = Ticks(ResumeDelayMs)
                /\ transcript' = <<>>]_vars
    /\ (C10_Quiet ~> ~C10_Quiet)

\* capture restarted by the grace timer after a reply finished
C10_Witness ==
    /\ listening
    /\ micArmed
    /\ obs.sinceQuiet = 0
    /\ obs.nSends = 1
    /\ ~loading
    /\ obs.cycle = "done"

\* C11  Session reset.  Every change of the session (the reset taking
\* effect, from any state) leaves the arbiter disarmed with capture stopped
\* and the captured transcript empty, no grace or debounce timer pending, and
\* the transcript, the streaming buffer, the dedup set and the pending
\* playback list empty.
C11_ResetClears ==
    [][session' # session
       => /\ ~micArmed' /\ ~listening' /\ transcript' = <<>>
          /\ ~resumeTimer'.on /\ ~silenceTimer'.on
          /\ messages' = <<>>
          /\ streamingTextRef' = <<>> /\ ~hasStreamedRef'
          /\ processedEventsRef' = <<>>
          /\ ttsQueueRef' = <<>>]_vars

\* the session was reset while a reply was streaming and an item was playing
C11_Witness ==
    /\ session = NoSession
    /\ obs.nSends = 1
    /\ streams # <<>>
    /\ inflight # <<>>
    /\ messages = <<>>
    /\ ~micArmed

\* the arbiter is disarmed, capture is off and neither timer is pending
C12_Disarmed ==
    /\ ~micArmed /\ ~listening /\ transcript = <<>>
    /\ ~resumeTimer.on /\ ~silenceTimer.on

\* C12  Unsupported capture.  While the support check reports capture
\* unsupported, or has not reported, the arbiter is disarmed and not
\* listening with no grace or debounce timer pending; toggleMic changes
\* nothing and no message is auto-submitted.
C12_UnsupportedStaysDisarmed ==
    /\ C12_Disarmed
    /\ [][support' # "yes"
          => /\ C12_Disarmed'
             /\ obs'.lastOp # "autoSend"
             /\ obs'.lastOp = "toggleMic"
                => UNCHANGED <<messages, loading, micArmed, listening,
                               transcript, streams, ttsQueueRef>>]_vars

\* toggleMic was called on a runtime that reported capture unsupported
C12_Witness == obs.lastOp = "toggleMic" /\ support = "no" /\ ~micArmed

\* toggleMic was called before the support check reported
C12_WitnessUnreported == obs.lastOp = "toggleMic" /\ support = "null"

\* C13  Malformed frames.  A line that fails to parse changes nothing: the
\* transcript, the streaming buffer and author, the dedup set, the pending
\* list and the items in flight stay as they are, and the stream stays open
\* and loading, so the lines that follow are still handed to handleSSEEvent
\* and the stream is read to its end.
C13_MalformedSkipped ==
    [][obs'.lastOp = "malformed"
       => /\ UNCHANGED <<messages, streamingTextRef, hasStreamedRef,
                         currentAuthorRef, processedEventsRef,
                         lastProcessedTextRef, ttsQueueRef, inflight,
                         streams, loading>>
          /\ streams # <<>>]_vars

\* a malformed line arrived while an entry was streaming
C13_Witness ==
    /\ obs.lastOp = "malformed"
    /\ hasStreamedRef
    /\ streams # <<>>
    /\ loading

\* a frame was applied after a malformed line of the same reply
C13_WitnessNextApplied ==
    /\ obs.nFrames = 2
    /\ obs.nSends = 1
    /\ obs.lastOp = "-"
    /\ Len(processedEventsRef) = 1
    /\ hasStreamedRef

\* C14  Playback forward progress.  Every item in flight eventually stops
\* being in flight, whether or not the utterance's end or error event is
\* ever delivered.
C14_PlaybackEnds == (inflight # <<>>) ~> (inflight = <<>>)

\* C15  Playback errors are swallowed per item.  When the playback of an
\* item fails, the item leaves flight, the playing flag and the speaking
\* flag are cleared, the pending list is left as it is, and if it is not
\* empty a worker run is scheduled 100 ms later; a scheduled run that finds
\* nothing playing starts the head of the pending list.
C15_ErrorSwallowed ==
    [][/\ obs'.lastOp = "playError"
          => /\ Len(inflight') = Len(inflight) - 1
             /\ ~ttsPlayingRef' /\ ~speaking'
             /\ ttsQueueRef' = ttsQueueRef
             /\ ttsQueueRef # <<>>
                => /\ Len(workerTimers') = Len(workerTimers) + 1
                   /\ Last(workerTimers').rem = Ticks(WorkerDelayMs)
       /\ (Len(workerTimers') < Len(workerTimers)
           /\ ~ttsPlayingRef /\ ttsQueueRef # <<>>)
          => /\ ttsQueueRef' = Tail(ttsQueueRef)
             /\ inflight' # <<>>
             /\ Last(inflight').item = Head(ttsQueueRef)
             /\ ~Last(inflight').cancelled
             /\ ttsPlayingRef']_vars

\* an item failed while another was pending, and the worker is scheduled
C15_Witness ==
    /\ obs.lastOp = "playError"
    /\ ttsQueueRef # <<>>
    /\ workerTimers # <<>>
    /\ inflight = <<>>

\* C16  Transport errors.  When sendPrompt or a read of the stream fails,
\* exactly one entry, the synthetic error entry, is appended to the
\* transcript, loading becomes false and the armed flag keeps its value.
C16_TransportError ==
    [][obs'.lastOp = "error"
       => /\ messages' = Append(messages, [role |-> "agent", content |-> ErrorText])
          /\ ~loading'
          /\ micArmed' = micArmed
          /\ Len(streams') = Len(streams) - 1]_vars

\* a stream failed while the arbiter was armed
C16_Witness ==
    /\ obs.lastOp = "error"
    /\ micArmed
    /\ ~loading
    /\ Last(messages).content = ErrorText

\* the scripted reply was delivered whole and its stream has ended, with
\* playback enabled throughout
C17_Delivered ==
    /\ run.script = HelloScript(run.script[1].author)
    /\ obs.cycle = "done"
    /\ obs.cycleClean
    /\ obs.nFrames = Len(run.script)

C17_Author == run.script[1].author

\* C17  Streaming scenario.  After partial(A, "Hel"), partial(A, "lo"),
\* final(A, "") and end-of-stream, the transcript holds the user's entry and
\* exactly one agent entry, "[A] Hello", and exactly one playback item was
\* enqueued, with text "Hello" and the voice of A.
C17_HelloScenario ==
    C17_Delivered
    => /\ messages = << [role |-> "user", content |-> <<"w">>],
                        [role |-> "agent",
                         content |-> Tagged(C17_Author, <<"H", "e", "l", "l", "o">>)] >>
       /\ obs.enqLog = << [text |-> <<"H", "e", "l", "l", "o">>,
                           voice |-> voiceForAuthor(C17_Author)] >>

\* the scenario has run to its end for author pilot
C17_Witness ==
    /\ C17_Delivered
    /\ C17_Author = "pilot"
    /\ Len(messages) = 2

\* a step that handles a partial frame of another author while an author's
\* streaming entry is open
C18_Switch ==
    /\ currentAuthorRef # NoAuthor
    /\ hasStreamedRef
    /\ streamingTextRef # <<>>
    /\ currentAuthorRef' # NoAuthor
    /\ currentAuthorRef' # currentAuthorRef

\* C18  Author switch ordering.  When a partial frame of author B arrives
\* while author A's streaming entry is open, A's accumulated text is enqueued
\* for playback with A's voice (playback being enabled and the text speakable),
\* and B's buffer then holds only the text of B's frame.
C18_SwitchOrdering ==
    [][C18_Switch =>
          /\ streamingTextRef' = obs'.segOpen.text
          /\ obs'.segOpen.author = currentAuthorRef'
          /\ (ttsEnabled /\ ~IsToolText(streamingTextRef)
                  /\ CleanText(streamingTextRef) # <<>>
              => obs'.enqLog = Append(obs.enqLog,
                                      [text |-> CleanText(streamingTextRef),
                                       voice |-> voiceForAuthor(currentAuthorRef)]))]_vars

\* a step in which the accumulator hands a finished segment to enqueueTTS
C19_Handed == Len(obs'.segLog) = Len(obs.segLog) + 1

\* C19  Enqueue contract.  An item handed to enqueueTTS while playback is
\* enabled, whose cleaned text is not empty (and is not a tool rendering),
\* is appended: after the call it is in the pending list or in flight.
C19_EnqueueContract ==
    [][C19_Handed /\ ttsEnabled
           /\ Last(obs'.segLog).text # <<>>
           /\ ~IsToolText(Last(obs'.segLog).text)
       => \/ \E i \in 1..Len(ttsQueueRef') :
                 /\ ttsQueueRef'[i].text = Last(obs'.segLog).text
                 /\ ttsQueueRef'[i].voice = Last(obs'.segLog).voice
                 /\ ttsQueueRef'[i].n = obs'.nEnq
          \/ \E i \in 1..Len(inflight') :
                 /\ inflight'[i].item.text = Last(obs'.segLog).text
                 /\ inflight'[i].item.voice = Last(obs'.segLog).voice
                 /\ inflight'[i].item.n = obs'.nEnq]_vars

\* the text holds the rendering of a tool invocation or of a tool result
C20_ToolRendering(text) ==
    \E i \in 1..Len(text) : text[i] \in {"CALLING TOOL:", "TOOL RESPONSE:"}

\* C20  Tool frames are never spoken.  In every reachable state no item of
\* the pending list, no item in flight and no item ever enqueued contains
\* the rendering of a tool invocation or of a tool result.
C20_ToolsNeverSpoken ==
    /\ \A i \in 1..Len(ttsQueueRef) : ~C20_ToolRendering(ttsQueueRef[i].text)
    /\ \A i \in 1..Len(inflight) : ~C20_ToolRendering(inflight[i].item.text)
    /\ \A i \in 1..Len(obs.enqLog) : ~C20_ToolRendering(obs.enqLog[i].text)

\* with playback enabled, the reply was enqueued and its tool call and tool
\* result were rendered into the transcript
C20_Witness ==
    /\ run.script = ToolScript("pilot")
    /\ obs.nFrames = 3
    /\ obs.nEnq = 1
    /\ ttsEnabled
    /\ Len(messages) = 4
    /\ C20_ToolRendering(messages[3].content)
    /\ C20_ToolRendering(messages[4].content)

\* with playback enabled, a streamed reply that holds a tool call was
\* finalized at the end of its stream
C20_WitnessStreamed ==
    /\ run.script = StreamedToolScript("pilot")
    /\ obs.cycle = "done"
    /\ obs.nFrames = 3
    /\ ttsEnabled
    /\ C20_ToolRendering(Last(messages).content)

\* the last entry is the streaming entry of the author whose segment is open,
\* and the step continues that segment
C21_OpenEntryContinues ==
    /\ messages # <<>>
    /\ Last(messages).role = "agent"
    /\ obs.segOpen.open
    /\ obs'.segOpen.open
    /\ obs'.segOpen.author = obs.segOpen.author

\* C21  The transcript is append-only except for the open streaming entry.
\* Short of a session reset, a step keeps every entry where it is and as it
\* is; only the last entry may change, and only while it is the streaming
\* entry of an author whose segment continues.  In particular a new author's
\* first partial frame leaves the previous entry unchanged.
C21_AppendOnly ==
    [][session' = session =>
          /\ Len(messages') >= Len(messages)
          /\ \A i \in 1..Len(messages) :
                 messages'[i] # messages[i]
                 => i = Len(messages) /\ C21_OpenEntryContinues]_vars

\* C22  Dedup set bound and reset.  The dedup key set never holds more than
\* 100 keys; a key added to a full set evicts the oldest inserted key and
\* nothing else; the set is empty right after every accepted submission and
\* after every session change.
C22_DedupBoundAndReset ==
    /\ [](Len(processedEventsRef) <= DedupCap)
    /\ [][/\ (processedEventsRef' # processedEventsRef /\ processedEventsRef' # <<>>
              => processedEventsRef' =
                     (IF Len(processedEventsRef) = DedupCap
                      THEN Tail(processedEventsRef) ELSE processedEventsRef)
                     \o <<Last(processedEventsRef')>>)
          /\ (obs'.nSends = obs.nSends + 1 => processedEventsRef' = <<>>)
          /\ (session' # session => processedEventsRef' = <<>>)]_vars

\* the set is full and the key of the reply's first frame has been evicted
C22_Witness ==
    /\ Len(processedEventsRef) = DedupCap
    /\ EventKey(LongFrame(1)) \notin Range(processedEventsRef)
    /\ EventKey(LongFrame(2)) \in Range(processedEventsRef)

\* a submission made with a full set
C22_WitnessSubmit ==
    /\ obs.nSends = 2
    /\ obs.nFrames > DedupCap
    /\ processedEventsRef = <<>>

\* C23  Sustained playback failures disable speech.  Once two items in a row
\* have failed to play (every playback of the run fails and the user never
\* touches the toggle), the enabled flag is false and no item is pending.
C23_FailuresDisable ==
    (Len(obs.startLog) >= 2 /\ inflight = <<>>)
    => ~ttsEnabled /\ ttsQueueRef = <<>>

\* C23 as amended: a playback failure leaves the enabled flag and the pending
\* items as they are, however many playbacks fail, and later replies are
\* still enqueued.
C23_FailuresKeepPlayback ==
    /\ [](ttsEnabled = TRUE)
    /\ [][obs'.lastOp = "playError"
              => /\ ttsEnabled' = ttsEnabled
                 /\ ttsQueueRef' = ttsQueueRef
                 /\ Len(inflight') = Len(inflight) - 1]_vars
    /\ [][(obs'.nFrames = obs.nFrames + 1 /\ lastProcessedTextRef' # lastProcessedTextRef)
              => obs'.nEnq = obs.nEnq + 1]_vars

\* two playbacks have failed and a third item, enqueued after them, is playing
C23_Witness ==
    /\ obs.lastOp # "playError"
    /\ Len(obs.startLog) = 3
    /\ obs.nEnq = 3
    /\ Len(inflight) = 1
    /\ inflight[1].item.n = 3
    /\ ttsEnabled

\* C24  Abandoned stream.  The case the claim is about, a submission accepted
\* while an earlier reply's stream is still open, does not occur: the typed
\* form and the silence timer submit only while loading is false, and
\* loading is true for as long as a stream is open.  This is the invariant
\* that shows it; it says nothing about what late frames would do.
C24_OneStreamAtATime ==
    /\ Len(streams) <= 1
    /\ (streams # <<>> => loading)

\* C25  Armed persists across replies.  The armed flag changes only in a
\* toggleMic step or when the session changes: submission, frame arrival,
\* end-of-stream, transport error, playback start and end, auto-submission
\* and the firing of the resume and silence timers leave it as it is.
C25_ArmedPersists ==
    [][micArmed' # micArmed => obs'.lastOp = "toggleMic" \/ session' # session]_vars

\* still armed, and listening again, after an auto-submitted message's reply
\* was received and played to its end
C25_Witness ==
    /\ micArmed
    /\ listening
    /\ obs.nSends = 1
    /\ obs.cycle = "done"
    /\ Len(obs.startLog) >= 1
    /\ inflight = <<>>
    /\ messages[1].content = <<"w">>

\* a step that accepts a non-partial frame while a streaming entry is open
C26_FinalOnOpen ==
    /\ obs'.nFrames = obs.nFrames + 1
    /\ obs.segOpen.open
    /\ ~obs'.segOpen.open

\* a step that accepts a non-partial frame while no streaming entry is open
C26_FinalOnNone ==
    /\ obs'.nFrames = obs.nFrames + 1
    /\ ~obs.segOpen.open
    /\ ~obs'.segOpen.open
    /\ Len(obs'.segLog) = Len(obs.segLog) + 1

\* the playback item the step's finished segment calls for was enqueued,
\* playback being enabled and the text speakable
C26_Enqueued ==
    (ttsEnabled /\ Last(obs'.segLog).text # <<>> /\ ~IsToolText(Last(obs'.segLog).text))
    => obs'.enqLog = Append(obs.enqLog, Last(obs'.segLog))

\* C26  Final frame handling.  A non-partial frame that arrives with a
\* streaming entry open enqueues the accumulated buffer with the streaming
\* author's voice, appends nothing to the transcript and closes the entry
\* (empty buffer, nothing streamed), so that a later partial frame starts
\* afresh; one that arrives with no entry open is appended as one new entry
\* and enqueued directly.
C26_FinalFrame ==
    [][/\ (C26_FinalOnOpen
           => /\ messages' = messages
              /\ streamingTextRef' = <<>>
              /\ ~hasStreamedRef'
              /\ C26_Enqueued)
       /\ (C26_FinalOnNone
           => /\ Len(messages') = Len(messages) + 1
              /\ SubSeq(messages', 1, Len(messages)) = messages
              /\ Last(messages').role = "agent"
              /\ C26_Enqueued)]_vars

\* a step in which the transport signals the completion of the reply
C27_Completion == obs.cycle = "open" /\ obs'.cycle = "done"

\* C27  End-of-stream finalization.  When the transport signals completion,
\* loading becomes false and no streaming entry stays open; if a streaming
\* entry was open and not yet finalized by a final frame, exactly one item
\* with its buffer and the current author's voice is enqueued (playback being
\* enabled and the text speakable), and otherwise no item is added.
C27_EndOfStream ==
    [][C27_Completion =>
          /\ ~loading'
          /\ streamingTextRef' = <<>>
          /\ ~hasStreamedRef'
          /\ currentAuthorRef' = NoAuthor
          /\ IF hasStreamedRef /\ streamingTextRef # <<>> /\ obs.segOpen.open
             THEN (ttsEnabled /\ ~IsToolText(streamingTextRef)
                       /\ CleanText(streamingTextRef) # <<>>)
                  => obs'.enqLog =
                         Append(obs.enqLog,
                                [text |-> CleanText(streamingTextRef),
                                 voice |-> voiceForAuthor(currentAuthorRef)])
             ELSE obs'.enqLog = obs.enqLog]_vars

\* C28  Auto-submission effects.  When the debounce timer fires with a
\* non-empty captured transcript, the capture buffer is cleared and capture
\* is stopped, and a user message is submitted only if the trimmed text is
\* not empty, the message being the trimmed text; a submitted utterance is
\* not left to be submitted again (buffer empty, no debounce timer pending);
\* when the captured transcript is empty the firing changes nothing.
C28_AutoSubmission ==
    [][C6_Fired =>
          IF silenceTimer.transcript # <<>>
          THEN /\ transcript' = <<>>
               /\ ~listening'
               /\ micArmed' = micArmed
               /\ IF obs'.lastOp = "autoSend"
                  THEN /\ Trim(silenceTimer.transcript) # <<>>
                       /\ messages' = Append(messages,
                                             [role |-> "user",
                                              content |-> Trim(silenceTimer.transcript)])
                       /\ obs'.nSends = obs.nSends + 1
                       /\ ~silenceTimer'.on
                  ELSE /\ messages' = messages
                       /\ obs'.nSends = obs.nSends
          ELSE /\ obs'.lastOp = "silence"
               /\ UNCHANGED <<messages, transcript, listening, micArmed, loading,
                              streams, speaking, ttsQueueRef, inflight>>]_vars

\* a captured text with a trailing blank was submitted trimmed
C28_Witness ==
    /\ obs.lastOp = "autoSend"
    /\ transcript = <<>>
    /\ ~listening
    /\ micArmed
    /\ Last(messages) = [role |-> "user", content |-> <<"w">>]
    /\ lastLenRef = 2

\* a blank captured text was cleared without a submission
C28_WitnessBlank ==
    /\ obs.lastOp = "silence"
    /\ session # NoSession
    /\ obs.nSends = 0
    /\ lastLenRef > 0
    /\ transcript = <<>>
    /\ ~listening

\* the timer fired with nothing captured and capture goes on
C28_WitnessEmpty ==
    /\ obs.lastOp = "silence"
    /\ lastLenRef = 0
    /\ transcript = <<>>
    /\ listening
    /\ ~silenceTimer.on

\* the text holds the marker followed by the tool's name
C29_Names(content, marker, tool) ==
    \E i \in 1..Len(content) - 1 : content[i] = marker /\ content[i + 1] = tool

\* the step delivers the next frame of the script, and that frame carries a
\* tool invocation or a tool result
C29_ToolFrameDelivered ==
    /\ run.script # <<>>
    /\ obs'.nFrames = obs.nFrames + 1
    /\ C20_ToolRendering(Joined(run.script[obs'.nFrames].parts))

\* C29  Tool frames are rendered.  Every accepted frame that carries a tool
\* invocation or a tool result puts its rendering, which names the tool, into
\* the transcript: after the step the last entry is an agent entry that holds
\* the frame's rendering and was added or rewritten by the step, whether or
\* not a streaming entry was open.
C29_ToolRendered ==
    [][C29_ToolFrameDelivered =>
          /\ messages' # messages
          /\ Last(messages').role = "agent"
          /\ \A k \in 1..Len(run.script[obs'.nFrames].parts) :
                 /\ run.script[obs'.nFrames].parts[k].call # ""
                    => C29_Names(Last(messages').content, "CALLING TOOL:",
                                 run.script[obs'.nFrames].parts[k].call)
                 /\ run.script[obs'.nFrames].parts[k].resp # ""
                    => C29_Names(Last(messages').content, "TOOL RESPONSE:",
                                 run.script[obs'.nFrames].parts[k].resp)]_vars

\* the step delivers the next frame of the script
C30_Delivered == run.script # <<>> /\ obs'.nFrames = obs.nFrames + 1

C30_Frame == run.script[obs'.nFrames]

\* the name of the frame's last tool invocation, "" when it has none
C30_InvokedTool(ps) ==
    IF \E k \in 1..Len(ps) : ps[k].call # ""
    THEN ps[CHOOSE k \in 1..Len(ps) :
                /\ ps[k].call # ""
                /\ \A j \in (k + 1)..Len(ps) : ps[j].call = ""].call
    ELSE ""

\* C30  Tool notification.  For every accepted frame that carries a tool
\* invocation or a tool result, one agentActivity notification is emitted
\* that carries the author and the tool's name.
C30_ToolNotified ==
    [][C29_ToolFrameDelivered =>
          /\ obs'.nNotifs = obs.nNotifs + 1
          /\ obs'.lastNotif = [author |-> C30_Frame.author, toolName |-> "f"]]_vars

\* C30 as amended: every accepted frame with content emits exactly one
\* notification, which carries the author and the name of the frame's tool
\* invocation, and no tool name when the frame has no invocation (a tool
\* result alone has none); a frame without content emits none; and the frame
\* is applied after the notification: a partial frame's text is in the
\* buffer, a complete frame that finds nothing streamed is in the transcript.
C30_Notified ==
    [][C30_Delivered =>
          IF Joined(C30_Frame.parts) = <<>>
          THEN obs'.nNotifs = obs.nNotifs
          ELSE /\ obs'.nNotifs = obs.nNotifs + 1
               /\ obs'.lastNotif = [author |-> C30_Frame.author,
                                    toolName |-> C30_InvokedTool(C30_Frame.parts)]
               /\ C30_Frame.partial
                  => /\ hasStreamedRef'
                     /\ streamingTextRef' = streamingTextRef \o Joined(C30_Frame.parts)
               /\ (~C30_Frame.partial /\ ~hasStreamedRef)
                  => messages' = Append(messages,
                                        buildAgentMessage(
                                            Tagged(C30_Frame.author,
                                                   Joined(C30_Frame.parts))))]_vars

\* the notification of a tool invocation was emitted and the frame is in the
\* transcript
C30_Witness ==
    /\ run.script = ToolScript("pilot")
    /\ obs.nFrames = 2
    /\ obs.nNotifs = 2
    /\ obs.lastNotif = [author |-> "pilot", toolName |-> "f"]
    /\ C29_Names(Last(messages).content, "CALLING TOOL:", "f")

\* whenever the pending list holds an item, an item is in flight or a worker
\* run is scheduled
C31_NoLostWakeup ==
    ttsQueueRef # <<>> => inflight # <<>> \/ workerTimers # <<>>

\* the n-th enqueued item is in the pending list
C31_Pending(n) == \E i \in 1..Len(ttsQueueRef) : ttsQueueRef[i].n = n

\* C31  Queue liveness (no lost wake-up).  With every playback terminating,
\* every item appended to the pending list eventually leaves it (it is
\* started, or flushed by a disable or a session reset); and no reachable
\* state has a pending item with nothing in flight and no worker run
\* scheduled.
C31_QueueLiveness ==
    /\ [](C31_NoLostWakeup)
    /\ \A n \in 1..MaxFrames : C31_Pending(n) ~> ~C31_Pending(n)

\* an item waits in the gap between two playbacks, with the worker's
\* re-schedule pending
C31_Witness ==
    /\ ttsQueueRef # <<>>
    /\ inflight = <<>>
    /\ Len(workerTimers) = 1
    /\ ~ttsPlayingRef

\* C32  Speaking flag accuracy.  In every reachable state the speaking flag
\* and the internal playing flag are true exactly when a playback item is in
\* flight.
C32_SpeakingAccurate ==
    /\ speaking <=> inflight # <<>>
    /\ ttsPlayingRef <=> inflight # <<>>

\* C33  Listening implies armed.  Whenever the capture device is listening
\* the arbiter is armed; capture is started only by a toggleMic that arms,
\* or by the grace timer firing while armed; and capture is off after every
\* step that disarms the arbiter or changes the session.
C33_ListeningImpliesArmed ==
    /\ [](listening => micArmed)
    /\ [][/\ (~listening /\ listening')
              => \/ obs'.lastOp = "toggleMic" /\ ~micArmed /\ micArmed'
                 \/ /\ obs'.lastOp # "toggleMic"
                    /\ resumeTimer.on /\ resumeTimer.rem = 0
                    /\ micArmed /\ micArmed'
          /\ (micArmed /\ ~micArmed') => ~listening'
          /\ session' # session => ~listening']_vars

\* capture is running again, started by the grace timer after a reply
C33_Witness ==
    /\ listening
    /\ micArmed
    /\ obs.lastOp # "toggleMic"
    /\ obs.cycle = "done"
    /\ ~loading
    /\ ~speaking

\* C34  Rejected submission is a no-op.  handleSendMessage called with no
\* session (by the silence timer, with a captured text that is not blank)
\* leaves the transcript, the loading flag, the streaming state, the dedup
\* set and the playback queue unchanged and opens no stream; an accepted
\* submission appends exactly one user entry, whose text is trimmed and not
\* empty, as the last entry, opens one stream and sets loading, and is made
\* by a caller that has a session.
C34_Submission ==
    [][/\ obs'.lastOp = "rejected"
          => /\ silenceTimer.env.session = NoSession
             /\ obs'.nSends = obs.nSends
             /\ UNCHANGED <<messages, loading, streamingTextRef, hasStreamedRef,
                            currentAuthorRef, processedEventsRef,
                            lastProcessedTextRef, ttsQueueRef, inflight, streams>>
       /\ obs'.nSends = obs.nSends + 1
          => /\ IF obs'.lastOp = "autoSend"
                THEN silenceTimer.env.session # NoSession
                ELSE session # NoSession
             /\ Len(messages') = Len(messages) + 1
             /\ SubSeq(messages', 1, Len(messages)) = messages
             /\ Last(messages').role = "user"
             /\ Last(messages').content # <<>>
             /\ Trim(Last(messages').content) = Last(messages').content
             /\ Len(streams') = Len(streams) + 1
             /\ loading'
             /\ processedEventsRef' = <<>>]_vars

\* the silence timer's submission was rejected for want of a session
C34_Witness ==
    /\ obs.lastOp = "rejected"
    /\ obs.nSends = 0
    /\ messages = <<>>
    /\ ~loading
    /\ streams = <<>>

\* C35  Single stream in flight.  At most one reply stream is being read at
\* any time, and no submission, typed or made by the silence callback, is
\* accepted while loading is true; this holds after a session reset made
\* while the stream is being read.
C35_SingleStream ==
    /\ [](Len(streams) <= 1)
    /\ [][obs'.nSends = obs.nSends + 1 => ~loading /\ streams = <<>>]_vars

\* a stream opened in an earlier session is still being read
C35_Witness ==
    /\ Len(streams) = 1
    /\ session # NoSession
    /\ streams[1].env.session # session
    /\ loading

\* C36  Chunking independence.  Once the whole text of the stream has been
\* read, the frames handed to handleSSEEvent are the frames of the text, in
\* order and once each, however the transport cut the text into chunks.
C36_ChunkingIndependence ==
    obs.nBytes = Len(Wire(run.script)) => obs.handed = run.script

\* C37  Session reset isolates the old stream.  Once a new session has
\* started, a frame or the end of a stream that was opened in an earlier
\* session changes neither the transcript, nor the pending playback items,
\* nor the loading and speaking flags.
C37_OldStreamStep ==
    /\ session # NoSession
    /\ streams # <<>>
    /\ \A i \in 1..Len(streams) : streams[i].env.session # session
    /\ \/ obs'.nFrames = obs.nFrames + 1
       \/ Len(streams') < Len(streams)

C37_ResetIsolates ==
    [][C37_OldStreamStep
         => /\ UNCHANGED <<messages, ttsQueueRef, loading, speaking>>
            /\ obs'.nEnq = obs.nEnq]_vars

\* C38  No capture between queued items.  In the gap between two playback
\* items (the worker's re-schedule timer is pending, the pending list holds
\* items and no item is in flight) an armed arbiter does not restart
\* capture, and the user cannot arm the mic.
C38_Gap ==
    /\ workerTimers # <<>>
    /\ ttsQueueRef # <<>>
    /\ inflight = <<>>

C38_NoResumeInGap ==
    [][C38_Gap /\ micArmed /\ micArmed' => ~(~listening /\ listening')]_vars

C38_NoArmInGap ==
    [][C38_Gap => ~(~micArmed /\ micArmed')]_vars

RECURSIVE C39_Fragments(_, _)
C39_Fragments(script, n) ==
    IF n = 0 THEN <<>>
    ELSE C39_Fragments(script, n - 1)
         \o (IF script[n].partial THEN Joined(script[n].parts) ELSE <<>>)

\* C39  Deduplication loses no genuine frame.  When the server emits every
\* frame of a reply once, the streaming buffer and the streaming entry hold
\* the concatenation, in arrival order, of the text of all partial frames
\* delivered so far, also when two of them have the same author, partial
\* flag and content and carry no id or timestamp.
C39_NoFrameLost ==
    (streams # <<>> /\ obs.nFrames > 0)
    => /\ streamingTextRef = C39_Fragments(run.script, obs.nFrames)
       /\ Last(messages).content
            = Tagged(run.script[1].author, C39_Fragments(run.script, obs.nFrames))
====
